---- MODULE Spec2Model ----
(***************************************************************************)
(* Model of fernbus (src/src/fernbus/main.py): the result-extraction       *)
(* pipeline find_bus_connections -> create_browser_session, get_results    *)
(* (with the readiness poll results_are_ready) and parse_result.           *)
(*                                                                         *)
(* Texts are sequences of one-character strings.  Python's None and a      *)
(* failed node lookup are the two sentinels None and NoNode, which are no  *)
(* texts (their only element is not a single character).                   *)
(***************************************************************************)
EXTENDS Integers, Sequences, FiniteSets, TLC

(***************************************************************************)
(* Bounds of the model.                                                    *)
(***************************************************************************)
MaxFragments == 2      \* most result containers on one page
MaxTimeout == 1        \* largest caller-supplied timeout, in seconds
MaxDate == 1           \* dates are 0..MaxDate, ordered as their ISO strings
MaxPriceLen == 4       \* longest enumerated price text

(***************************************************************************)
(* Python values.                                                          *)
(***************************************************************************)
None == <<"None">>
NoNode == <<"NoNode">>

DigitChars == {"0", "1", "2", "3", "4", "5", "6", "7", "8", "9"}

DigitVal(c) ==
  CASE c = "0" -> 0 [] c = "1" -> 1 [] c = "2" -> 2 [] c = "3" -> 3
    [] c = "4" -> 4 [] c = "5" -> 5 [] c = "6" -> 6 [] c = "7" -> 7
    [] c = "8" -> 8 [] c = "9" -> 9

DigitChar(d) ==
  CASE d = 0 -> "0" [] d = 1 -> "1" [] d = 2 -> "2" [] d = 3 -> "3"
    [] d = 4 -> "4" [] d = 5 -> "5" [] d = 6 -> "6" [] d = 7 -> "7"
    [] d = 8 -> "8" [] d = 9 -> "9"

(***************************************************************************)
(* Unbounded naturals as sequences of decimal digits, most significant     *)
(* first.  The value of a double does not fit TLC's 32-bit integers.       *)
(***************************************************************************)
BigIsZero(a) == \A i \in 1..Len(a) : a[i] = 0

\* a without its leading zeros (one digit at least)
BigStrip(a) ==
  IF BigIsZero(a) THEN <<0>>
  ELSE LET first == CHOOSE i \in 1..Len(a) :
                      a[i] # 0 /\ \A h \in 1..(i - 1) : a[h] = 0
       IN  SubSeq(a, first, Len(a))

\* x >= y for x and y without leading zeros
BigGEStripped(x, y) ==
  IF Len(x) # Len(y) THEN Len(x) > Len(y)
  ELSE \A i \in 1..Len(x) :
         (x[i] # y[i] /\ \A h \in 1..(i - 1) : x[h] = y[h]) => x[i] > y[i]

BigGE(a, b) == BigGEStripped(BigStrip(a), BigStrip(b))

\* 2 * a: the carry into a digit is 1 exactly when the digit after it is >= 5
BigDouble(a) ==
  LET carry(i) == IF i < Len(a) /\ a[i + 1] >= 5 THEN 1 ELSE 0
      low == [i \in 1..Len(a) |-> (2 * a[i] + carry(i)) % 10]
  IN  IF Len(a) > 0 /\ a[1] >= 5 THEN <<1>> \o low ELSE low

\* a \div 2: the remainder carried into a digit is the parity of the digit before
BigHalve(a) ==
  [i \in 1..Len(a) |->
     (10 * (IF i > 1 THEN a[i - 1] % 2 ELSE 0) + a[i]) \div 2]

BigOdd(a) == Len(a) > 0 /\ a[Len(a)] % 2 = 1

\* a + 1
BigInc(a) ==
  IF \A i \in 1..Len(a) : a[i] = 9 THEN <<1>> \o [i \in 1..Len(a) |-> 0]
  ELSE LET p == CHOOSE i \in 1..Len(a) :
                  a[i] # 9 /\ \A h \in (i + 1)..Len(a) : a[h] = 9
       IN  [i \in 1..Len(a) |->
              IF i < p THEN a[i] ELSE IF i = p THEN a[i] + 1 ELSE 0]

Zeros(n) == [i \in 1..n |-> 0]

(***************************************************************************)
(* IEEE-754 binary64, as Python's float.  A positive double is M / 2^k or  *)
(* M * 2^j with 2^52 <= M <= 2^53.                                          *)
(***************************************************************************)
Pow2_52 == <<4, 5, 0, 3, 5, 9, 9, 6, 2, 7, 3, 7, 0, 4, 9, 6>>

\* a * 2^j (the recursion halves j, to stay shallow)
RECURSIVE DoubleTimes(_, _)
DoubleTimes(a, j) ==
  IF j = 0 THEN a
  ELSE IF j = 1 THEN BigDouble(a)
  ELSE CHOOSE r \in {DoubleTimes(v, j - (j \div 2)) :
                       v \in {DoubleTimes(a, j \div 2)}} : TRUE

\* st.n * 2^(16*i) and st.k + 16*i for the least i with st.n * 2^(16*(i+1)) >= lo
RECURSIVE ScaleUp16(_, _)
ScaleUp16(st, lo) ==
  LET next == DoubleTimes(st.n, 16)
  IN  IF BigGE(next, lo) THEN st
      ELSE CHOOSE r \in {ScaleUp16(v, lo) :
                           v \in {[n |-> next, k |-> st.k + 16]}} : TRUE

\* st.n * 2^i and st.k + i for the least i with st.n * 2^i >= lo
RECURSIVE ScaleUp1(_, _)
ScaleUp1(st, lo) ==
  IF BigGE(st.n, lo) THEN st
  ELSE CHOOSE r \in {ScaleUp1(v, lo) :
                       v \in {[n |-> BigDouble(st.n), k |-> st.k + 1]}} : TRUE

\* the same, in steps of 16 doublings first to keep the recursion shallow
ScaleUp(st, lo) ==
  CHOOSE r \in {ScaleUp1(v, lo) : v \in {ScaleUp16(st, lo)}} : TRUE

\* st.j + i for the least i with n < st.den * 2^(i+1)
RECURSIVE ScaleDown(_, _)
ScaleDown(st, n) ==
  LET d2 == BigDouble(st.den)
  IN  IF BigGE(n, d2)
      THEN CHOOSE r \in {ScaleDown(v, n) :
                           v \in {[den |-> d2, j |-> st.j + 1]}} : TRUE
      ELSE st.j

\* one bit shifted out of st.q: g is that bit, s whether any bit before it was set
HalveStep(st) ==
  [q |-> BigHalve(st.q),
   g |-> IF BigOdd(st.q) THEN 1 ELSE 0,
   s |-> st.s \/ st.g = 1]

\* st.q \div 2^k, with the last bit shifted out (g) and whether any bit before
\* it was set (s)
RECURSIVE HalveTimes(_, _)
HalveTimes(st, k) ==
  IF k = 0 THEN st
  ELSE IF k = 1 THEN HalveStep(st)
  ELSE CHOOSE r \in {HalveTimes(v, k - (k \div 2)) :
                       v \in {HalveTimes(st, k \div 2)}} : TRUE

\* round to nearest, ties to even: q plus a discarded part of g/2 + (s: more)
RoundHalfEven(q, g, s) ==
  IF g = 1 /\ (s \/ BigOdd(q)) THEN BigInc(q) ELSE q

\* a \div 10^f rounded to nearest, ties to even, for a of more than f digits
RoundDivPow10(a, f) ==
  RoundHalfEven(SubSeq(a, 1, Len(a) - f),
                IF f > 0 /\ a[Len(a) - f + 1] >= 5 THEN 1 ELSE 0,
                f > 0 /\ (\/ a[Len(a) - f + 1] # 5
                          \/ \E i \in (Len(a) - f + 2)..Len(a) : a[i] # 0))

\* 2^52 * 10^f and 2^53 * 10^f
Lo(f) == Pow2_52 \o Zeros(f)
Hi(f) == BigDouble(Lo(f))

\* n / 10^f < 2^53, scaled to up.n = n * 2^up.k >= 2^52 * 10^f: the mantissa
\* is up.n / 10^f rounded, the double is the mantissa / 2^up.k, and the
\* result its hundredths rounded
SmallRound(up, f) ==
  CHOOSE r \in
    {BigStrip(RoundHalfEven(h.q, h.g, h.s)) :
       h \in {HalveTimes([q |-> RoundDivPow10(up.n, f) \o <<0, 0>>,
                          g |-> 0, s |-> FALSE], up.k)}} : TRUE

SmallToHundredths(n, f) ==
  CHOOSE r \in
    {SmallRound(up, f) : up \in {ScaleUp([n |-> n, k |-> 0], Lo(f))}} : TRUE

\* n / 10^f >= 2^53 with 2^52 <= n / (10^f * 2^j) < 2^53: the mantissa is
\* that quotient rounded, the double is the mantissa * 2^j
LargeRound(n, f, j) ==
  CHOOSE r \in
    {BigStrip(DoubleTimes(
        RoundHalfEven(h.q, h.g,
                      h.s \/ \E i \in (Len(n) - f + 1)..Len(n) : n[i] # 0),
        j) \o <<0, 0>>) :
       h \in {HalveTimes([q |-> SubSeq(n, 1, Len(n) - f),
                          g |-> 0, s |-> FALSE], j)}} : TRUE

LargeToHundredths(n, f) ==
  CHOOSE r \in
    {LargeRound(n, f, j) :
       j \in {ScaleDown([den |-> Hi(f), j |-> 0], n) + 1}} : TRUE

\* float(s) followed by "{0:.2f}": the digits of round(double(n / 10^f) * 100),
\* where n is the number its digits write and f counts the fraction digits
FloatToHundredths(n, f) ==
  IF BigIsZero(n) THEN <<0>>
  ELSE IF BigGE(n, Hi(f)) THEN LargeToHundredths(n, f)
  ELSE SmallToHundredths(n, f)

(***************************************************************************)
(* Text operations of parse_result.                                        *)
(***************************************************************************)
IsText(v) == v # None /\ v # NoNode

\* str.split()[0]: the first whitespace-separated token, <<>> when there is none
SplitFirst(text) ==
  LET starts == {i \in 1..Len(text) : text[i] # " "}
  IN  IF starts = {} THEN <<>>
      ELSE LET b == CHOOSE i \in starts : \A h \in starts : i <= h
               ends == {i \in b..Len(text) : i = Len(text) \/ text[i + 1] = " "}
               e == CHOOSE i \in ends : \A h \in ends : i <= h
           IN  SubSeq(text, b, e)

\* COMMA_REGEX.sub('.', s): every comma becomes a period
CommaSubNone(s) == s
CommaSub(s) == [i \in 1..Len(s) |-> IF s[i] = "," THEN "." ELSE s[i]]

\* float(s) accepts s: digits with at most one period and one digit at least
\* (no text of the model holds a sign, an exponent, "inf" or "nan")
FloatValid(s) ==
  /\ \A i \in 1..Len(s) : s[i] \in DigitChars \cup {"."}
  /\ Cardinality({i \in 1..Len(s) : s[i] = "."}) <= 1
  /\ \E i \in 1..Len(s) : s[i] \in DigitChars

\* the digits of s, its period left out
NumberDigits(s) ==
  LET t == SelectSeq(s, LAMBDA c : c # ".")
  IN  [i \in 1..Len(t) |-> DigitVal(t[i])]

\* how many digits of s follow its period
FractionLen(s) ==
  Cardinality({i \in 1..Len(s) :
                 s[i] # "." /\ \E h \in 1..(i - 1) : s[h] = "."})

\* the digits hp, three at least, with a period before the last two
WriteDigits(hp) ==
  [i \in 1..(Len(hp) + 1) |->
     IF i < Len(hp) - 1 THEN DigitChar(hp[i])
     ELSE IF i = Len(hp) - 1 THEN "."
     ELSE DigitChar(hp[i - 1])]

\* hundredths h written with a period before the last two digits
WriteHundredths(h) ==
  WriteDigits(IF Len(h) < 3 THEN Zeros(3 - Len(h)) \o h ELSE h)

\* u"{0:.2f} €".format(float(s)) for a valid s
FormatPrice(s) ==
  CHOOSE r \in
    {WriteHundredths(h) \o <<" ", "€">> :
       h \in {FloatToHundredths(NumberDigits(s), FractionLen(s))}} : TRUE

(***************************************************************************)
(* A result fragment (one div.search-result element), by what the lookups  *)
(* of parse_result find in it: text is the element's own text, departure,  *)
(* duration and arrival tell whether the three column nodes exist, and the *)
(* ten leaves are NoNode (the xpath finds nothing), None (a node without   *)
(* text) or the node's text.                                               *)
(***************************************************************************)
Fields ==
  <<"departure_date", "departure_time", "departure_stop", "trip_duration",
    "number_of_stops", "arrival_date", "arrival_time", "arrival_stop",
    "price", "company">>

\* the lookups in the order parse_result makes them: <<line, column node, leaf>>
Lookups ==
  << <<107, "departure", "">>, <<108, "", "departure_date">>,
     <<109, "", "departure_time">>, <<110, "", "departure_stop">>,
     <<112, "duration", "">>, <<113, "", "trip_duration">>,
     <<114, "", "number_of_stops">>,
     <<116, "arrival", "">>, <<117, "", "arrival_date">>,
     <<118, "", "arrival_time">>, <<119, "", "arrival_stop">>,
     <<121, "", "price">>, <<124, "", "company">> >>

\* the exception a lookup raises on the fragment, "" when it raises none
LookupFault(result, l) ==
  IF l[2] # "" THEN (IF result[l[2]] THEN "" ELSE "IndexError")
  ELSE IF result[l[3]] = NoNode THEN "IndexError"
  ELSE IF l[3] # "price" THEN ""
  ELSE IF result.price = None THEN "AttributeError"
  ELSE IF SplitFirst(result.price) = <<>> THEN "IndexError"
  ELSE IF ~FloatValid(CommaSub(SplitFirst(result.price))) THEN "ValueError"
  ELSE ""

\* the price field of the record
PriceOf(result) == FormatPrice(CommaSub(SplitFirst(result.price)))

\* the record built at the end of the try block
MakeConnection(result) ==
  [f \in {Fields[i] : i \in 1..Len(Fields)} |->
     IF f = "price" THEN PriceOf(result) ELSE result[f]]

\* the try block of parse_result: the record, or the first exception raised
TryParse(result) ==
  LET bad == {i \in 1..Len(Lookups) : LookupFault(result, Lookups[i]) # ""}
  IN  IF bad = {} THEN [ok |-> TRUE, conn |-> MakeConnection(result)]
      ELSE LET i == CHOOSE x \in bad : \A y \in bad : x <= y
           IN  [ok |-> FALSE,
                exc |-> LookupFault(result, Lookups[i]),
                line |-> IF LookupFault(result, Lookups[i]) = "ValueError"
                         THEN 122 ELSE Lookups[i][1]]

(***************************************************************************)
(* Pages.  The model's fragments: two well-formed offers, the "loading"    *)
(* placeholder the site shows while it searches, an offer without its      *)
(* price node, an offer whose price is no number and an offer whose        *)
(* company node has no text.                                               *)
(***************************************************************************)
DELAY_MSG ==
  <<"L", "a", "d", "e", " ", "B", "u", "s", "v", "e", "r", "b", "i", "n",
    "d", "u", "n", "g", "e", "n">>

Offer(price) ==
  [text |-> <<" ">>, departure |-> TRUE, duration |-> TRUE, arrival |-> TRUE,
   departure_date |-> <<"M", "o">>, departure_time |-> <<"0", "8">>,
   departure_stop |-> <<"B">>, trip_duration |-> <<"3", "h">>,
   number_of_stops |-> <<"1">>, arrival_date |-> <<"D", "i">>,
   arrival_time |-> <<"1", "1">>, arrival_stop |-> <<"H">>,
   price |-> price, company |-> <<"F">>]

Placeholder ==
  [text |-> DELAY_MSG \o <<".">>, departure |-> FALSE, duration |-> FALSE,
   arrival |-> FALSE,
   departure_date |-> NoNode, departure_time |-> NoNode,
   departure_stop |-> NoNode, trip_duration |-> NoNode,
   number_of_stops |-> NoNode, arrival_date |-> NoNode,
   arrival_time |-> NoNode, arrival_stop |-> NoNode,
   price |-> NoNode, company |-> NoNode]

Fragments ==
  { Offer(<<"1", "2", ",", "5">>),
    Offer(<<"1", "9", ",", "9", "9", " ", "€">>),
    Placeholder,
    [Offer(<<"1", "2", ",", "5">>) EXCEPT !.price = NoNode],
    [Offer(<<"1", "2", ",", "5">>) EXCEPT !.price = <<"a", "b">>],
    [Offer(<<"1", "2", ",", "5">>) EXCEPT !.company = None] }

RECURSIVE SeqsUpTo(_, _)
SeqsUpTo(S, n) ==
  IF n = 0 THEN {<<>>}
  ELSE LET shorter == SeqsUpTo(S, n - 1)
       IN  shorter \cup {Append(q, x) : q \in shorter, x \in S}

Pages == SeqsUpTo(Fragments, MaxFragments)

(***************************************************************************)
(* State.                                                                  *)
(***************************************************************************)
VARIABLES
  pc,           \* where the program is: "cli", "create", "submit", "poll",
                \* "sleep", "enumerate", "parse", "done"
  DEBUG,        \* the module-level DEBUG flag
  today,        \* datetime.date.today(), as a day number
  date,         \* the date argument, as a day number (ISO strings of one
                \* format compare as their days do)
  timeout,      \* the timeout argument, in seconds
  session,      \* "none", "open" or "closed": the dryscrape session
  interactions, \* the browser/DOM interactions made so far, in order
  page,         \* the div.search-result elements of the live document
  clock,        \* time since wait_for started, in poll intervals of 0.5 s
  files,        \* the diagnostic files written so far
  results,      \* the elements get_results returned
  idx,          \* the position of the loop of find_bus_connections in
                \* results (0: get_results has not returned)
  connections,  \* the list the loop builds
  outcome,      \* "" while running, "returned" or the exception raised
  error,        \* the fault detail the raised exception carries
  retval        \* what find_bus_connections returned

vars ==
  <<pc, DEBUG, today, date, timeout, session, interactions, page,
    clock, files, results, idx, connections, outcome, error, retval>>

NoError == [exc |-> "", line |-> 0]

\* what a list holds after parse_result returned None (the pudb branch)
NoneEntry == [none |-> None]

Init ==
  /\ pc = "cli"
  /\ DEBUG = FALSE
  /\ today \in 0..MaxDate
  /\ date = 0
  /\ timeout = 0
  /\ session = "none"
  /\ interactions = <<>>
  /\ page = <<>>
  /\ clock = 0
  /\ files = {}
  /\ results = <<>>
  /\ idx = 0
  /\ connections = <<>>
  /\ outcome = ""
  /\ error = NoError
  /\ retval = <<>>

(***************************************************************************)
(* run_cli                                                                 *)
(***************************************************************************)
\* the module-level DEBUG after run_cli ran "if args.debug is True: DEBUG =
\* True": the assignment has no global statement, so it binds a local of
\* run_cli that nothing reads, and the module's flag stays as it was
DebugAfterRunCliGlobal(flag, arg) == IF arg THEN TRUE ELSE flag
DebugAfterRunCli(flag, arg) == flag

RunCli(dbg, d, t) ==
  /\ pc = "cli"
  /\ DEBUG' = DebugAfterRunCli(DEBUG, dbg)
  /\ date' = d
  /\ timeout' = t
  /\ pc' = "create"
  /\ UNCHANGED <<today, session, interactions, page, clock, files, results,
                 idx, connections, outcome, error, retval>>

(***************************************************************************)
(* create_browser_session                                                  *)
(***************************************************************************)
CreateBrowserSession ==
  /\ pc = "create"
  /\ session' = "open"
  /\ interactions' = Append(interactions, "visit")
  /\ page' = <<>>
  /\ pc' = "submit"
  /\ UNCHANGED <<DEBUG, today, date, timeout, clock, files, results,
                 idx, connections, outcome, error, retval>>

(***************************************************************************)
(* get_results, up to the click on the search button                       *)
(***************************************************************************)
\* the interactions made before the assert on the date
BeforeAssert == <<"set #From", "set #To", "at_css #When">>
\* and after it
AfterAssert == <<"set #When", "click .btn-warning">>

SubmitSearch ==
  /\ pc = "submit"
  /\ IF date >= today
     THEN /\ interactions' = interactions \o BeforeAssert \o AfterAssert
          /\ pc' = "poll"
          /\ outcome' = outcome
     ELSE /\ interactions' = interactions \o BeforeAssert
          /\ outcome' = "AssertionError"
          /\ pc' = "done"
  /\ clock' = 0
  /\ UNCHANGED <<DEBUG, today, date, timeout, session, page, files,
                 results, idx, connections, error, retval>>

(***************************************************************************)
(* The site's script rewrites the result list while the program waits.     *)
(***************************************************************************)
PageUpdate(p) ==
  /\ pc \in {"poll", "enumerate"}  \* before each look at the document
  /\ p # page
  /\ page' = p
  /\ UNCHANGED <<pc, DEBUG, today, date, timeout, session,
                 interactions, clock, files, results, idx, connections,
                 outcome, error, retval>>

(***************************************************************************)
(* results_are_ready and the loop of WaitMixin.wait_for                    *)
(***************************************************************************)
Contains(text, pat) ==
  \E i \in 1..(Len(text) - Len(pat) + 1) :
    SubSeq(text, i, i + Len(pat) - 1) = pat

\* results_are_ready on the document doc: what it returns (None is falsy)
\* and whether its except branch rendered error.png
results_are_ready_eager(doc) ==
  IF doc = <<>> THEN [ret |-> TRUE, rendered |-> TRUE]
  ELSE IF doc[1].text = None THEN [ret |-> FALSE, rendered |-> TRUE]
  ELSE IF Contains(doc[1].text, DELAY_MSG) THEN [ret |-> FALSE, rendered |-> FALSE]
  ELSE [ret |-> TRUE, rendered |-> FALSE]
results_are_ready(doc) ==
  IF doc = <<>> THEN [ret |-> FALSE, rendered |-> TRUE]
  ELSE IF doc[1].text = None THEN [ret |-> FALSE, rendered |-> TRUE]
  ELSE IF Contains(doc[1].text, DELAY_MSG) THEN [ret |-> FALSE, rendered |-> FALSE]
  ELSE [ret |-> TRUE, rendered |-> FALSE]

\* wait_for gives up: the time since it started exceeds the timeout
TimedOut(elapsed, limit) == elapsed > 2 * limit

\* the files the handler of WaitTimeoutError writes before it raises again
TimeoutArtifactsNone == {}
TimeoutArtifacts == {"error.png"}

Poll ==
  /\ pc = "poll"
  /\ LET r == results_are_ready(page)
         polled == IF r.rendered THEN files \cup {"error.png"} ELSE files
     IN  IF r.ret
         THEN /\ pc' = "enumerate"
              /\ files' = polled
              /\ outcome' = outcome
         ELSE IF TimedOut(clock, timeout)
         THEN /\ files' = polled \cup TimeoutArtifacts
              /\ outcome' = "WaitTimeoutError"
              /\ pc' = "done"
         ELSE /\ files' = polled
              /\ pc' = "sleep"
              /\ outcome' = outcome
  /\ UNCHANGED <<DEBUG, today, date, timeout, session, interactions,
                 page, clock, results, idx, connections, error, retval>>

\* time.sleep(interval): one interval, or more when the machine is slow
Sleep(d) ==
  /\ pc = "sleep"
  /\ clock' = clock + d
  /\ pc' = "poll"
  /\ UNCHANGED <<DEBUG, today, date, timeout, session, interactions,
                 page, files, results, idx, connections, outcome, error,
                 retval>>

(***************************************************************************)
(* get_results returns the elements; find_bus_connections starts its loop  *)
(***************************************************************************)
Enumerate ==
  /\ pc = "enumerate"
  /\ results' = page
  /\ connections' = <<>>
  /\ idx' = 1
  /\ pc' = "parse"
  /\ UNCHANGED <<DEBUG, today, date, timeout, session, interactions,
                 page, clock, files, outcome, error, retval>>

(***************************************************************************)
(* One turn of the loop: parse_result on results[idx]                      *)
(***************************************************************************)
\* the files the except branch of parse_result writes
ExceptArtifactsPngOnly == {"error.png"}
ExceptArtifacts == {"error.png", "error.htm"}

\* the detail the raised BusliniensucheParsingError carries (format_exc())
ErrorDetailNone(fault) == NoError
ErrorDetail(fault) == [exc |-> fault.exc, line |-> fault.line]

\* connections.append(c)
AppendConnectionFront(list, c) == <<c>> \o list
AppendConnection(list, c) == Append(list, c)

ParseNext ==
  /\ pc = "parse"
  /\ idx <= Len(results)
  /\ LET r == TryParse(results[idx])
     IN  IF r.ok
         THEN /\ connections' = AppendConnection(connections, r.conn)
              /\ idx' = idx + 1
              /\ UNCHANGED <<pc, files, outcome, error>>
         ELSE /\ files' = files \cup ExceptArtifacts
              /\ IF DEBUG
                 THEN \* pudb.set_trace(), then the function returns None
                      /\ connections' = AppendConnection(connections, NoneEntry)
                      /\ idx' = idx + 1
                      /\ UNCHANGED <<pc, outcome, error>>
                 ELSE /\ outcome' = "BusliniensucheParsingError"
                      /\ error' = ErrorDetail(r)
                      /\ pc' = "done"
                      /\ UNCHANGED <<connections, idx>>
  /\ UNCHANGED <<DEBUG, today, date, timeout, session, interactions,
                 page, clock, results, retval>>

\* the loop is over: return connections
ReturnConnections ==
  /\ pc = "parse"
  /\ idx > Len(results)
  /\ retval' = connections
  /\ outcome' = "returned"
  /\ pc' = "done"
  /\ UNCHANGED <<DEBUG, today, date, timeout, session, interactions,
                 page, clock, files, results, idx, connections, error>>

Next ==
  \/ \E dbg \in BOOLEAN, d \in 0..MaxDate, t \in 0..MaxTimeout : RunCli(dbg, d, t)
  \/ CreateBrowserSession
  \/ SubmitSearch
  \/ \E p \in Pages : PageUpdate(p)
  \/ Poll
  \/ \E d \in 1..2 : Sleep(d)
  \/ Enumerate
  \/ ParseNext
  \/ ReturnConnections

Spec == Init /\ [][Next]_vars

\* the thread in wait_for keeps running: a poll that is due is made and a
\* sleep that was started ends; the site's script (PageUpdate) need not run
FairSpec == Spec /\ WF_vars(Poll) /\ WF_vars(\E d \in 1..2 : Sleep(d))

(***************************************************************************)
(* parse_result alone: find_bus_connections at the start of its loop over  *)
(* a page of one fragment, the fragment drawn from a larger set: an offer  *)
(* with any short price text or one of a few long ones, and an offer with  *)
(* one node, or one node's text, missing.                                  *)
(***************************************************************************)
PriceAlphabet == {"0", "5", "9", ",", ".", " "}

LongPrices ==
  { <<"7", "0", "3", "6", "8", "7", "4", "4", "1", "7", "7", "6", "6", "4",
      ",", "0", "1">>,
    <<"7", "0", "3", "6", "8", "7", "4", "4", "1", "7", "7", "6", "6", "3",
      ",", "9", "9">>,
    <<"0", "1", "9", ",", "9", "9", " ", "€">>,
    <<"1", ".", "2", "3", "4", ",", "5", "6">> }

PriceTexts == SeqsUpTo(PriceAlphabet, MaxPriceLen) \cup LongPrices

Leaves == {Fields[i] : i \in 1..Len(Fields)}

ParseFragments ==
  {Offer(p) : p \in PriceTexts}
    \cup {[Offer(<<"1", "2", ",", "5">>) EXCEPT ![f] = v] :
            f \in Leaves, v \in {NoNode, None}}
    \cup {[Offer(<<"1", "2", ",", "5">>) EXCEPT ![c] = FALSE] :
            c \in {"departure", "duration", "arrival"}}
    \cup {Placeholder}

InitParse ==
  /\ pc = "parse"
  /\ DEBUG = FALSE
  /\ today = 0
  /\ date = 0
  /\ timeout = 0
  /\ session = "open"
  /\ interactions = <<"visit">> \o BeforeAssert \o AfterAssert
  /\ results \in {<<f>> : f \in ParseFragments}
  /\ page = results
  /\ clock = 0
  /\ files = {}
  /\ idx = 1
  /\ connections = <<>>
  /\ outcome = ""
  /\ error = NoError
  /\ retval = <<>>

NextParse == ParseNext \/ ReturnConnections

SpecParse == InitParse /\ [][NextParse]_vars

(***************************************************************************)
(* Properties.                                                             *)
(***************************************************************************)
IsRecord(c) == "none" \notin DOMAIN c

\* the first lookup that raises on the fragment, 0 when none does
FirstFault(result) ==
  LET bad == {i \in 1..Len(Lookups) : LookupFault(result, Lookups[i]) # ""}
  IN  IF bad = {} THEN 0 ELSE CHOOSE x \in bad : \A y \in bad : x <= y

\* parse_result cannot build a record from the fragment
Malformed(result) == FirstFault(result) # 0

\* C1: a call whose date is before today fails with the invalid-input failure
\* (the assert) and has by then neither acquired a browser session nor made
\* any browser/DOM interaction.
C1_FailsBeforeAnyInteraction ==
  (pc = "done" /\ date < today)
    => (outcome = "AssertionError" /\ session = "none" /\ interactions = <<>>)

\* C2: when a call has ended, on whatever path, the session it opened is
\* not open any more.
C2_SessionReleased == pc = "done" => session # "open"

\* C3: if one of the enumerated fragments is malformed, at any position, the
\* call ends with the parsing failure and returns nothing; what a call
\* returns has one record per fragment and holds no None.
C3_NoPartialResults ==
  /\ (pc = "done" /\ idx >= 1 /\ \E i \in 1..Len(results) : Malformed(results[i]))
       => (outcome = "BusliniensucheParsingError" /\ retval = <<>>)
  /\ outcome # "returned" => retval = <<>>
  /\ outcome = "returned"
       => /\ Len(retval) = Len(results)
          /\ \A i \in 1..Len(retval) : IsRecord(retval[i])
          /\ \A i \in 1..Len(results) : ~Malformed(results[i])

C3_Witness ==
  /\ outcome = "BusliniensucheParsingError"
  /\ Len(results) = 2
  /\ idx = 2
  /\ Len(connections) = 1
  /\ retval = <<>>

\* C4: the wait ends: from every poll the program gets to a ready page or to
\* the timeout failure; the timeout failure is raised with error.png
\* rendered and with no fragment enumerated or parsed, and it is not the
\* parsing failure.
C4_TimeoutFailure ==
  /\ [](outcome = "WaitTimeoutError"
          => /\ "error.png" \in files
             /\ TimedOut(clock, timeout)
             /\ idx = 0 /\ results = <<>> /\ connections = <<>> /\ retval = <<>>
             /\ error = NoError
             /\ outcome # "BusliniensucheParsingError")
  /\ (pc = "poll") ~> (pc = "enumerate" \/ outcome = "WaitTimeoutError")

C4_Witness ==
  /\ outcome = "WaitTimeoutError"
  /\ page = <<Placeholder>>
  /\ files = {"error.png"}

\* C5: a turn of the loop on a fragment that does not parse ends with the
\* parsing failure raised, error.png and error.htm written, and the failure
\* carrying the exception the first failing lookup raised and its line.
C5_ArtifactsAndDetail ==
  [][(pc = "parse" /\ idx <= Len(results) /\ Malformed(results[idx]))
       => /\ outcome' = "BusliniensucheParsingError"
          /\ {"error.png", "error.htm"} \subseteq files'
          /\ error'.exc =
               LookupFault(results[idx], Lookups[FirstFault(results[idx])])
          /\ error'.exc \in {"IndexError", "AttributeError", "ValueError"}
          /\ error'.line \in {Lookups[FirstFault(results[idx])][1], 122}]_vars

C5_Witness ==
  /\ outcome = "BusliniensucheParsingError"
  /\ {"error.png", "error.htm"} \subseteq files
  /\ error.exc = "ValueError"

\* C6: every record built has all ten fields populated; none is None.
C6_AllFieldsPopulated ==
  \A i \in 1..Len(connections) :
    IsRecord(connections[i])
      => \A f \in Leaves : IsText(connections[i][f])

\* C7: a call that returns, returns one record per fragment, the i-th the
\* parse of the i-th fragment get_results selected.
C7_DomOrder ==
  outcome = "returned"
    => /\ Len(retval) = Len(results)
       /\ \A i \in 1..Len(results) :
            /\ TryParse(results[i]).ok
            /\ retval[i] = TryParse(results[i]).conn

C7_Witness ==
  /\ outcome = "returned"
  /\ Len(retval) = 2
  /\ retval[1] # retval[2]

\* a comma-decimal text: digits, a comma, one or two digits
IsCommaDecimal(t) ==
  /\ IsText(t)
  /\ \E c \in 2..(Len(t) - 1) :
       /\ t[c] = ","
       /\ Len(t) - c \in {1, 2}
       /\ \A i \in (1..Len(t)) \ {c} : t[i] \in DigitChars

IntDigits(t) ==
  LET c == CHOOSE i \in 1..Len(t) : t[i] = ","
  IN  [i \in 1..(c - 1) |-> DigitVal(t[i])]

\* the amount of a comma-decimal text, written with a period, two fraction
\* digits and the suffix
Written(t) ==
  LET c == CHOOSE i \in 1..Len(t) : t[i] = ","
      ip == BigStrip(IntDigits(t))
      fp == SubSeq(t, c + 1, Len(t))
  IN  [i \in 1..Len(ip) |-> DigitChar(ip[i])] \o <<".">> \o fp
        \o (IF Len(fp) = 1 THEN <<"0">> ELSE <<>>) \o <<" ", "€">>

Pow2_46 == <<7, 0, 3, 6, 8, 7, 4, 4, 1, 7, 7, 6, 6, 4>>

\* the fragment with a comma-decimal price text t gives a record whose price
\* is Written(t) and whose other fields are the fragment's
PriceNormalized(i) ==
  IF i <= Len(connections)
  THEN /\ IsRecord(connections[i])
       /\ connections[i].price = Written(results[i].price)
       /\ \A f \in Leaves \ {"price"} : connections[i][f] = results[i][f]
  ELSE \* the turn for fragment i has not ended in a failure on its price
       ~(outcome = "BusliniensucheParsingError" /\ idx = i
           /\ error.line \in {121, 122})

\* C8 as stated: for every fragment with a comma-decimal price text.
C8_PriceNormalizedAlways ==
  \A i \in 1..Len(results) :
    (idx >= 1 /\ IsCommaDecimal(results[i].price)) => PriceNormalized(i)

\* C8, amended: for every fragment with a comma-decimal price text whose
\* amount is below 2^46 = 70368744177664 (a double keeps the hundredths of
\* such an amount), the price of the record is the amount with a period and
\* two fraction digits followed by " €", and the other nine fields are the
\* fragment's.
C8_PriceNormalizedBelow2_46 ==
  \A i \in 1..Len(results) :
    (/\ idx >= 1
     /\ IsCommaDecimal(results[i].price)
     /\ ~BigGE(IntDigits(results[i].price), Pow2_46)) => PriceNormalized(i)

C8_Witness ==
  /\ outcome = "returned"
  /\ results[1].price = <<"9", ",", "5">>
  /\ retval[1].price = <<"9", ".", "5", "0", " ", "€">>

\* C9: a poll raises nothing; it reports ready only when a container is
\* there whose text does not show the loading message; on a document without
\* a container it reports not ready (the call sleeps or times out).
C9_ReadyOnlyOnSignal ==
  [][(pc = "poll" /\ pc' # "poll")
       => /\ pc' \in {"enumerate", "sleep", "done"}
          /\ outcome' \in {"", "WaitTimeoutError"}
          /\ pc' = "enumerate"
               => /\ page # <<>>
                  /\ IsText(page[1].text)
                  /\ ~Contains(page[1].text, DELAY_MSG)
          /\ page = <<>>
               => \/ pc' = "sleep"
                  \/ pc' = "done" /\ outcome' = "WaitTimeoutError"]_vars

C9_Witness ==
  /\ outcome = "WaitTimeoutError"
  /\ page = <<>>
  /\ clock > 0

\* C10: a call that returned records has written no diagnostic file.
C10_NoArtifactsOnSuccess == outcome = "returned" => files = {}

====
